---- MODULE Spec2Model ----
(***************************************************************************)
(* Graph colouring visualiser (ok.py): the three vertex colouring          *)
(* heuristics, the edge colouring adapter over the line graph, the colour  *)
(* count computed by GraphApp.run, and the label / timer state of the GUI. *)
(*                                                                         *)
(* A graph is a record [nodes, edges]: nodes is the sequence of node ids   *)
(* in the graph's iteration order (G.nodes()), edges a set of sets {u, v}  *)
(* (a self-loop is the singleton {u}).                                     *)
(***************************************************************************)
EXTENDS Integers, Sequences, FiniteSets, TLC

\* Bounds of the model.
MaxNodes == 4
MaxEdges == 3
MaxGuiN == 3
MaxLabels == 3
MaxTimers == 3

VARIABLES
    \* one colouring computation (lines 206-222 and the functions it calls)
    G, mode, algo,          \* the inputs: graph, "Sommet"/"Arete", algorithm
    W,                      \* the graph the engine runs on (G or its line graph)
    pc,                     \* position of the computation
    colors, steps,          \* the locals of greedy_steps / wp_steps / dsatur_steps
    order, idx,             \* the for loop of greedy_steps / wp_steps
    saturation, degrees, uncolored,   \* the locals of dsatur_steps
    nb_colors,              \* run's nb_colors
    \* the GUI (GraphApp)
    current_label,          \* self.current_label: 0 is None, else a label id
    destroyed,              \* the label ids whose widget was destroyed
    label_image,            \* image shown by the current label: the frame
                            \* list it comes from (by length) and its index
    label_count,            \* labels created so far
    timers,                 \* pending self.after(300, animate, i), in due order
    label_result,           \* text of self.label_result
    gif_exists,             \* whether graph.gif exists
    last_run,               \* the last run event: its inputs and how it ended
    animate_status          \* how the last animate callback ended

algVars == <<G, mode, algo, W, pc, colors, steps, order, idx,
             saturation, degrees, uncolored, nb_colors>>
guiVars == <<current_label, destroyed, label_image, label_count, timers,
             label_result, gif_exists, last_run, animate_status>>
vars == <<G, mode, algo, W, pc, colors, steps, order, idx,
          saturation, degrees, uncolored, nb_colors,
          current_label, destroyed, label_image, label_count, timers,
          label_result, gif_exists, last_run, animate_status>>

Modes == {"Sommet", "Arete"}
Algos == {"Greedy", "Welsh-Powell", "DSATUR"}

----------------------------------------------------------------------------
\* Graph queries (networkx Graph as used by the colouring functions).

Range(f) == {f[x] : x \in DOMAIN f}

NodeSet(Gr) == Range(Gr.nodes)

\* G.neighbors(v)
Neighbors(Gr, v) == {w \in NodeSet(Gr) : {v, w} \in Gr.edges}

\* G.degree(v): a self-loop counts twice
Degree(Gr, v) ==
    Cardinality(Neighbors(Gr, v) \ {v}) + (IF {v} \in Gr.edges THEN 2 ELSE 0)

\* position of v in the iteration order of the graph
Pos(Gr, v) == CHOOSE i \in 1..Len(Gr.nodes) : Gr.nodes[i] = v

EmptyGraph == [nodes |-> <<>>, edges |-> {}]

\* all orderings of a finite set
Perms(S) ==
    {f \in [1..Cardinality(S) -> S] :
        \A i, j \in 1..Cardinality(S) : i # j => f[i] # f[j]}

\* node of the line graph standing for the edge e of the source graph:
\* the tuple of its endpoints, lower first
EdgeTuple(e) ==
    LET lo == CHOOSE u \in e : \A v \in e : u <= v
        hi == CHOOSE u \in e : \A v \in e : v <= u
    IN <<lo, hi>>

\* two line-graph nodes are adjacent iff the edges are distinct and share an
\* endpoint
LineAdjacent(a, b) == a # b /\ {a[1], a[2]} \cap {b[1], b[2]} # {}

\* nx.line_graph(G) with its nodes in the order ord
LineGraph(Gr, ord) ==
    [nodes |-> ord,
     edges |-> {{p[1], p[2]} :
                  p \in {q \in Range(ord) \X Range(ord) : LineAdjacent(q[1], q[2])}}]

\* the orders nx.line_graph may give the nodes (it collects them in a hash set)
LineGraphOrders(Gr) == Perms({EdgeTuple(e) : e \in Gr.edges})

----------------------------------------------------------------------------
\* The first-fit assignment shared by the three functions.

\* variant: the colours of all coloured nodes, neighbours or not
UsedAll(Gr, col, node) == {col[n] : n \in DOMAIN col}

\* used = {colors[n] for n in G.neighbors(node) if n in colors}
Used(Gr, col, node) == {col[n] : n \in Neighbors(Gr, node) \cap DOMAIN col}

\* while color in used: color += 1
RECURSIVE NextFree(_, _)
NextFree(used, color) ==
    IF color \in used THEN NextFree(used, color + 1) ELSE color

\* variant: the search starts at colour 1
FirstFitFromOne(used) == NextFree(used, 1)

\* variant: "if color in used" in place of the while loop
FirstFitOnce(used) == IF 0 \in used THEN 1 ELSE 0

\* color = 0; while color in used: color += 1
FirstFit(used) == NextFree(used, 0)

\* colors[node] = color
ColorNode(Gr, col, node) ==
    LET c == FirstFit(Used(Gr, col, node))
    IN [v \in DOMAIN col \cup {node} |-> IF v = node THEN c ELSE col[v]]

\* variant: steps.append(colors), every entry the same dict object
AppendAlias(st, col) == [i \in 1..(Len(st) + 1) |-> col]

\* steps.append(colors.copy())
AppendSnapshot(st, col) == Append(st, col)

\* sorted(seq, key=lambda n: G.degree(n), reverse=True): Python's sort is
\* stable, also with reverse=True (equal keys keep their original order)
RECURSIVE SortByDegree(_, _)
SortByDegree(Gr, seq) ==
    IF seq = <<>> THEN <<>>
    ELSE LET x == Head(seq)
             rest == SortByDegree(Gr, Tail(seq))
             k == Cardinality({i \in 1..Len(rest) :
                                 Degree(Gr, rest[i]) > Degree(Gr, x)})
         IN SubSeq(rest, 1, k) \o <<x>> \o SubSeq(rest, k + 1, Len(rest))

Reverse(seq) == [i \in 1..Len(seq) |-> seq[Len(seq) + 1 - i]]

\* variant: sorted(G.nodes(), key=...)[::-1], equal degrees in reverse order
WpOrderTiesReversed(Gr) == SortByDegree(Gr, Reverse(Gr.nodes))

\* order = sorted(G.nodes(), key=lambda n: G.degree(n), reverse=True)
WpOrder(Gr) == SortByDegree(Gr, Gr.nodes)

\* (saturation[x], degrees[x]) compared as Python compares tuples
KeyLeq(s1, d1, s2, d2) == s1 < s2 \/ (s1 = s2 /\ d1 <= d2)

\* the nodes max(uncolored, key=...) may return: max keeps the first maximal
\* element met, and the iteration order of a set is not fixed by the language
MaxCandidates(unc, sat, deg) ==
    {x \in unc : \A y \in unc : KeyLeq(sat[y], deg[y], sat[x], deg[x])}

\* variant: saturation[neigh] += 1 in place of the recount
SatUpdateIncrement(Gr, col, sat, unc, node) ==
    [v \in DOMAIN sat |->
        IF v \in Neighbors(Gr, node) /\ v \in unc THEN sat[v] + 1 ELSE sat[v]]

\* for neigh in G.neighbors(node): if neigh in uncolored:
\*     saturation[neigh] = len({colors[n] for n in G.neighbors(neigh) if n in colors})
SatUpdate(Gr, col, sat, unc, node) ==
    [v \in DOMAIN sat |->
        IF v \in Neighbors(Gr, node) /\ v \in unc
        THEN Cardinality(Used(Gr, col, v))
        ELSE sat[v]]

----------------------------------------------------------------------------
\* The colouring functions as whole computations (used where the caller
\* needs only the returned trace).

RECURSIVE OrderedTrace(_, _, _, _)
OrderedTrace(Gr, ord, col, st) ==
    IF ord = <<>> THEN st
    ELSE LET c == ColorNode(Gr, col, Head(ord))
         IN OrderedTrace(Gr, Tail(ord), c, AppendSnapshot(st, c))

greedy_steps(Gr) == OrderedTrace(Gr, Gr.nodes, <<>>, <<>>)

wp_steps(Gr) == OrderedTrace(Gr, WpOrder(Gr), <<>>, <<>>)

\* the traces dsatur_steps may return, one per way max() breaks its ties
RECURSIVE DsaturTraces(_, _, _, _, _)
DsaturTraces(Gr, col, st, sat, unc) ==
    IF unc = {} THEN {st}
    ELSE UNION {
           LET c == ColorNode(Gr, col, node)
           IN DsaturTraces(Gr, c, AppendSnapshot(st, c),
                           SatUpdate(Gr, c, sat, unc, node), unc \ {node}) :
           node \in MaxCandidates(unc, sat, [n \in NodeSet(Gr) |-> Degree(Gr, n)])}

dsatur_steps(Gr) ==
    DsaturTraces(Gr, <<>>, <<>>, [n \in NodeSet(Gr) |-> 0], NodeSet(Gr))

\* the loop of edge_coloring_steps: each snapshot rebuilt key by key
ConvertSteps(st) == [i \in 1..Len(st) |-> [e \in DOMAIN st[i] |-> st[i][e]]]

edge_coloring_steps(LG) == ConvertSteps(greedy_steps(LG))

\* len(set(steps[-1].values()))
CountColors(st) == Cardinality(Range(st[Len(st)]))

----------------------------------------------------------------------------
\* One colouring computation of GraphApp.run (lines 206-222), step by step:
\* the inputs are fixed by Init, each loop iteration of the called function
\* is one action.

\* the simple undirected graphs on the nodes 0..n-1, iterated in that order
SimpleGraphs ==
    UNION {
      {[nodes |-> [i \in 1..n |-> i - 1], edges |-> E] :
          E \in SUBSET {e \in SUBSET (0..(n - 1)) : Cardinality(e) = 2}} :
      n \in 0..MaxNodes}

NoImage == [frames |-> 0, i |-> 0]

GuiInit ==
    /\ current_label = 0
    /\ destroyed = {}
    /\ label_image = NoImage
    /\ label_count = 0
    /\ timers = <<>>
    /\ label_result = [kind |-> "text", text |-> "Resultat", n |-> 0]
    /\ gif_exists = FALSE
    /\ last_run = [status |-> "none", empty |-> FALSE, nb_colors |-> 0]
    /\ animate_status = "none"

Init ==
    /\ G \in SimpleGraphs
    /\ mode \in Modes
    /\ algo \in Algos
    /\ mode = "Arete" => Cardinality(G.edges) <= MaxEdges
    /\ W = EmptyGraph
    /\ pc = "run"
    /\ colors = <<>>
    /\ steps = <<>>
    /\ order = <<>>
    /\ idx = 0
    /\ saturation = <<>>
    /\ degrees = <<>>
    /\ uncolored = {}
    /\ nb_colors = 0
    /\ GuiInit

\* run, lines 210-212: steps = greedy_steps(G), up to its loop
RunGreedy ==
    /\ pc = "run" /\ mode = "Sommet" /\ algo = "Greedy"
    /\ W' = G
    /\ colors' = <<>> /\ steps' = <<>>
    /\ order' = G.nodes /\ idx' = 1
    /\ pc' = "greedy"
    /\ UNCHANGED <<G, mode, algo, saturation, degrees, uncolored, nb_colors>>
    /\ UNCHANGED guiVars

\* run, lines 213-214: steps = wp_steps(G), up to its loop
RunWp ==
    /\ pc = "run" /\ mode = "Sommet" /\ algo = "Welsh-Powell"
    /\ W' = G
    /\ colors' = <<>> /\ steps' = <<>>
    /\ order' = WpOrder(G) /\ idx' = 1
    /\ pc' = "wp"
    /\ UNCHANGED <<G, mode, algo, saturation, degrees, uncolored, nb_colors>>
    /\ UNCHANGED guiVars

\* run, lines 215-216: steps = dsatur_steps(G), up to its loop
RunDsatur ==
    /\ pc = "run" /\ mode = "Sommet" /\ algo \notin {"Greedy", "Welsh-Powell"}
    /\ W' = G
    /\ colors' = <<>> /\ steps' = <<>>
    /\ saturation' = [n \in NodeSet(G) |-> 0]
    /\ degrees' = [n \in NodeSet(G) |-> Degree(G, n)]
    /\ uncolored' = NodeSet(G)
    /\ pc' = "dsatur"
    /\ UNCHANGED <<G, mode, algo, order, idx, nb_colors>>
    /\ UNCHANGED guiVars

\* run, lines 219-220: steps = edge_coloring_steps(G), which builds the line
\* graph and calls greedy_steps on it whatever algo is
RunEdge ==
    /\ pc = "run" /\ mode # "Sommet"
    /\ \E ord \in LineGraphOrders(G) :
         /\ W' = LineGraph(G, ord)
         /\ order' = ord
    /\ colors' = <<>> /\ steps' = <<>>
    /\ idx' = 1
    /\ pc' = "greedy"
    /\ UNCHANGED <<G, mode, algo, saturation, degrees, uncolored, nb_colors>>
    /\ UNCHANGED guiVars

\* greedy_steps, one iteration of the for loop (lines 20-26)
GreedyLoop ==
    /\ pc = "greedy" /\ idx <= Len(order)
    /\ LET c == ColorNode(W, colors, order[idx])
       IN /\ colors' = c
          /\ steps' = AppendSnapshot(steps, c)
    /\ idx' = idx + 1
    /\ UNCHANGED <<G, mode, algo, W, pc, order, saturation, degrees, uncolored,
                   nb_colors>>
    /\ UNCHANGED guiVars

\* greedy_steps, return steps (line 27), to run or to edge_coloring_steps
GreedyReturn ==
    /\ pc = "greedy" /\ idx > Len(order)
    /\ pc' = IF mode = "Sommet" THEN "count" ELSE "convert"
    /\ UNCHANGED <<G, mode, algo, W, colors, steps, order, idx, saturation,
                   degrees, uncolored, nb_colors>>
    /\ UNCHANGED guiVars

\* wp_steps, one iteration of the for loop (lines 33-39)
WpLoop ==
    /\ pc = "wp" /\ idx <= Len(order)
    /\ LET c == ColorNode(W, colors, order[idx])
       IN /\ colors' = c
          /\ steps' = AppendSnapshot(steps, c)
    /\ idx' = idx + 1
    /\ UNCHANGED <<G, mode, algo, W, pc, order, saturation, degrees, uncolored,
                   nb_colors>>
    /\ UNCHANGED guiVars

\* wp_steps, return steps (line 40)
WpReturn ==
    /\ pc = "wp" /\ idx > Len(order)
    /\ pc' = "count"
    /\ UNCHANGED <<G, mode, algo, W, colors, steps, order, idx, saturation,
                   degrees, uncolored, nb_colors>>
    /\ UNCHANGED guiVars

\* dsatur_steps, one iteration of the while loop (lines 48-60)
DsaturLoop ==
    /\ pc = "dsatur" /\ uncolored # {}
    /\ \E node \in MaxCandidates(uncolored, saturation, degrees) :
         LET c == ColorNode(W, colors, node)
         IN /\ colors' = c
            /\ steps' = AppendSnapshot(steps, c)
            /\ saturation' = SatUpdate(W, c, saturation, uncolored, node)
            /\ uncolored' = uncolored \ {node}
    /\ UNCHANGED <<G, mode, algo, W, pc, order, idx, degrees, nb_colors>>
    /\ UNCHANGED guiVars

\* dsatur_steps, return steps (line 61)
DsaturReturn ==
    /\ pc = "dsatur" /\ uncolored = {}
    /\ pc' = "count"
    /\ UNCHANGED <<G, mode, algo, W, colors, steps, order, idx, saturation,
                   degrees, uncolored, nb_colors>>
    /\ UNCHANGED guiVars

\* edge_coloring_steps, lines 66-72: the trace rebuilt with the same keys
EdgeConvert ==
    /\ pc = "convert"
    /\ steps' = ConvertSteps(steps)
    /\ pc' = "count"
    /\ UNCHANGED <<G, mode, algo, W, colors, order, idx, saturation, degrees,
                   uncolored, nb_colors>>
    /\ UNCHANGED guiVars

\* run, lines 218 / 222 on a non-empty trace
CountDone ==
    /\ pc = "count" /\ steps # <<>>
    /\ nb_colors' = CountColors(steps)
    /\ pc' = "done"
    /\ UNCHANGED <<G, mode, algo, W, colors, steps, order, idx, saturation,
                   degrees, uncolored>>
    /\ UNCHANGED guiVars

\* run, lines 218 / 222 on an empty trace: steps[-1] raises IndexError
CountIndexError ==
    /\ pc = "count" /\ steps = <<>>
    /\ pc' = "IndexError"
    /\ UNCHANGED <<G, mode, algo, W, colors, steps, order, idx, saturation,
                   degrees, uncolored, nb_colors>>
    /\ UNCHANGED guiVars

Next ==
    \/ RunGreedy
    \/ RunWp
    \/ RunDsatur
    \/ RunEdge
    \/ GreedyLoop
    \/ GreedyReturn
    \/ WpLoop
    \/ WpReturn
    \/ DsaturLoop
    \/ DsaturReturn
    \/ EdgeConvert
    \/ CountDone
    \/ CountIndexError

Spec == Init /\ [][Next]_vars

----------------------------------------------------------------------------
\* Properties of the colouring computation.

MaxDegree(Gr) ==
    IF Gr.nodes = <<>> THEN 0
    ELSE CHOOSE d \in {Degree(Gr, v) : v \in NodeSet(Gr)} :
           \A v \in NodeSet(Gr) : Degree(Gr, v) <= d

\* the vertex coloured by the k-th decision: the key snapshot k adds
ColoredAt(k) ==
    CHOOSE v \in DOMAIN steps[k] : k = 1 \/ v \notin DOMAIN steps[k - 1]

\* number of distinct colours among the coloured neighbours of v
TrueSaturation(v) == Cardinality({colors[n] : n \in Neighbors(W, v) \cap DOMAIN colors})

Returned == pc \in {"count", "done", "IndexError"}

\* C1: every snapshot of the trace built by greedy_steps, wp_steps or
\* dsatur_steps is a proper partial colouring: the two endpoints of an edge
\* that are both keys of the snapshot have different colours.
C1_ProperSnapshots ==
    \A k \in 1..Len(steps) :
        \A e \in W.edges :
            \A u \in e, v \in e :
                (u # v /\ u \in DOMAIN steps[k] /\ v \in DOMAIN steps[k])
                    => steps[k][u] # steps[k][v]

C1_Witness ==
    /\ mode = "Sommet" /\ algo = "DSATUR" /\ pc = "done"
    /\ Len(steps) = 4
    /\ \E e \in W.edges : e \subseteq DOMAIN steps[2]
    /\ nb_colors = 3

\* C2: in edge mode the returned trace is the trace the requested strategy
\* produces on the line graph (for DSATUR: one of the traces it may produce).
C2_EdgeUsesRequestedStrategy ==
    (Returned /\ mode = "Arete") =>
        /\ algo = "Greedy" => steps = greedy_steps(W)
        /\ algo = "Welsh-Powell" => steps = wp_steps(W)
        /\ algo = "DSATUR" => steps \in dsatur_steps(W)

\* C4: the trace grows by exactly one new key per entry, earlier keys keep
\* their colour, and the returned trace has |V| entries (|E| in edge mode)
\* whose last entry colours every vertex (edge).
C4_TraceStructure ==
    /\ \A k \in 1..Len(steps) :
          /\ Cardinality(DOMAIN steps[k]) = k
          /\ k > 1 => \A v \in DOMAIN steps[k - 1] :
                         v \in DOMAIN steps[k] /\ steps[k][v] = steps[k - 1][v]
    /\ (pc = "convert" \/ Returned) =>
          /\ Len(steps) = Len(W.nodes)
          /\ mode = "Sommet" => Len(steps) = Len(G.nodes)
          /\ mode = "Arete" => Len(steps) = Cardinality(G.edges)
          /\ steps # <<>> =>
                DOMAIN steps[Len(steps)] =
                    IF mode = "Sommet" THEN NodeSet(G)
                    ELSE {EdgeTuple(e) : e \in G.edges}

C4_Witness ==
    \/ /\ mode = "Sommet" /\ pc = "done" /\ Len(steps) = 4 /\ G.edges # {}
    \/ /\ mode = "Arete" /\ pc = "done" /\ Len(steps) = 3

\* C5: every colour given to a vertex is at most its degree, and the number
\* of distinct colours of the final snapshot is at most maxDegree + 1.
C5_DegreeBound ==
    /\ \A k \in 1..Len(steps) :
          \A v \in DOMAIN steps[k] : steps[k][v] <= Degree(W, v)
    /\ pc = "done" => nb_colors <= MaxDegree(W) + 1

C5_Witness ==
    /\ mode = "Sommet" /\ pc = "done"
    /\ nb_colors = MaxDegree(G) + 1
    /\ nb_colors = 3

\* C6: in every snapshot of the edge-mode trace, two distinct edges of the
\* source graph that share an endpoint and are both coloured have different
\* colours.
C6_ProperEdgeColoring ==
    mode = "Arete" =>
        \A k \in 1..Len(steps) :
            \A e1 \in G.edges, e2 \in G.edges :
                (/\ e1 # e2
                 /\ e1 \cap e2 # {}
                 /\ EdgeTuple(e1) \in DOMAIN steps[k]
                 /\ EdgeTuple(e2) \in DOMAIN steps[k])
                    => steps[k][EdgeTuple(e1)] # steps[k][EdgeTuple(e2)]

C6_Witness ==
    /\ mode = "Arete" /\ pc = "done"
    /\ Len(steps) = 3
    /\ \E e1 \in G.edges, e2 \in G.edges :
          /\ e1 # e2 /\ e1 \cap e2 # {}
          /\ {EdgeTuple(e1), EdgeTuple(e2)} \subseteq DOMAIN steps[2]

\* C7: the colours used in a snapshot have no gap: they are exactly
\* 0 .. k-1 for the number k >= 1 of distinct colours.
C7_NoGap ==
    \A k \in 1..Len(steps) :
        /\ Range(steps[k]) # {}
        /\ Range(steps[k]) = 0..(Cardinality(Range(steps[k])) - 1)

C7_Witness ==
    /\ mode = "Sommet" /\ Len(steps) >= 3
    /\ Range(steps[Len(steps)]) = {0, 1, 2}

\* C8: at the start of every selection step of dsatur_steps the stored
\* saturation of each uncoloured vertex is the number of distinct colours
\* among its coloured neighbours, and the vertex a step selects has the
\* maximum (true saturation, degree) pair among the uncoloured vertices.
C8_StoredIsTrue ==
    pc = "dsatur" =>
        \A v \in uncolored : saturation[v] = TrueSaturation(v)

C8_SelectsMax ==
    (pc = "dsatur" /\ uncolored' # uncolored) =>
        \A node \in uncolored \ uncolored' :
            \A u \in uncolored :
                KeyLeq(TrueSaturation(u), Degree(W, u),
                       TrueSaturation(node), Degree(W, node))

C8_DsaturSaturation == []C8_StoredIsTrue /\ [][C8_SelectsMax]_vars

C8_Witness ==
    /\ pc = "dsatur" /\ Len(steps) = 3
    /\ \E v \in uncolored :
          /\ saturation[v] = 1
          /\ Cardinality(Neighbors(W, v) \cap DOMAIN colors) = 2
          /\ ColoredAt(3) \in Neighbors(W, v)

\* C9: wp_steps colours the vertices in non-increasing order of their degree
\* in the input graph, vertices of equal degree in the graph's iteration
\* order.
C9_WpOrder ==
    (mode = "Sommet" /\ algo = "Welsh-Powell") =>
        \A i \in 1..Len(steps), j \in 1..Len(steps) :
            i < j =>
                /\ Degree(G, ColoredAt(i)) >= Degree(G, ColoredAt(j))
                /\ Degree(G, ColoredAt(i)) = Degree(G, ColoredAt(j))
                      => Pos(G, ColoredAt(i)) < Pos(G, ColoredAt(j))

C9_Witness ==
    /\ mode = "Sommet" /\ algo = "Welsh-Powell" /\ pc = "done"
    /\ Len(steps) = 4
    /\ ColoredAt(1) # 0
    /\ Degree(G, ColoredAt(2)) = Degree(G, ColoredAt(3))
    /\ Degree(G, ColoredAt(1)) > Degree(G, ColoredAt(4))

----------------------------------------------------------------------------
\* The GUI: the handlers of GraphApp, each one atomic (Tk runs one callback
\* at a time), and the animate callbacks scheduled with self.after.

GraphTypes == {"Cycle", "Aleatoire", "Biparti", "autre"}

\* generate_graph(graph_type, n, p): the graphs it may return.  The random
\* graph is fixed by (n, p, seed=1); any edge set stands for it.
generate_graph(graph_type, n) ==
    LET nodes == [i \in 1..n |-> i - 1]
    IN IF graph_type = "Cycle"
       THEN {[nodes |-> nodes,
              edges |-> {{i, (i + 1) % n} : i \in 0..(n - 1)}]}
       ELSE IF graph_type = "Aleatoire"
       THEN {[nodes |-> nodes, edges |-> E] :
               E \in SUBSET {e \in SUBSET (0..(n - 1)) : Cardinality(e) = 2}}
       ELSE IF graph_type = "Biparti"
       THEN {[nodes |-> nodes,
              edges |-> {{u, v} : u \in 0..((n \div 2) - 1),
                                  v \in (n \div 2)..(n - 1)}]}
       ELSE {EmptyGraph}

\* run, lines 210-222: the traces the chosen mode and algorithm may give
RunTraces(Gr, m, a) ==
    IF m = "Sommet"
    THEN IF a = "Greedy" THEN {greedy_steps(Gr)}
         ELSE IF a = "Welsh-Powell" THEN {wp_steps(Gr)}
         ELSE dsatur_steps(Gr)
    ELSE {edge_coloring_steps(LineGraph(Gr, ord)) : ord \in LineGraphOrders(Gr)}

\* the input has nothing to colour
EmptyInput(Gr, m) ==
    IF m = "Sommet" THEN Gr.nodes = <<>> ELSE Gr.edges = {}

\* lines 196-198 and 187-189: destroy the label, forget it
DestroyLabel == IF current_label # 0 THEN destroyed \cup {current_label}
                ELSE destroyed

GuiIdle ==
    /\ G = EmptyGraph /\ mode = "Sommet" /\ algo = "Greedy" /\ W = EmptyGraph
    /\ pc = "gui" /\ colors = <<>> /\ steps = <<>> /\ order = <<>> /\ idx = 0
    /\ saturation = <<>> /\ degrees = <<>> /\ uncolored = {} /\ nb_colors = 0

InitGui == GuiIdle /\ GuiInit

\* run with an entry that int() or float() rejects (lines 196-201)
RunValueError ==
    /\ destroyed' = DestroyLabel
    /\ current_label' = 0
    /\ label_image' = NoImage
    /\ last_run' = [status |-> "ValueError", empty |-> FALSE, nb_colors |-> 0]
    /\ UNCHANGED <<label_count, timers, label_result, gif_exists, animate_status>>
    /\ UNCHANGED algVars

\* run on an input whose trace is empty: steps[-1] raises IndexError at
\* line 218 / 222, after the old label was destroyed
RunIndexError ==
    /\ \E n \in 0..MaxGuiN, gt \in GraphTypes, m \in Modes, a \in Algos :
         \E Gr \in generate_graph(gt, n) :
           \E st \in RunTraces(Gr, m, a) :
             /\ st = <<>>
             /\ last_run' = [status |-> "IndexError",
                             empty |-> EmptyInput(Gr, m), nb_colors |-> 0]
    /\ destroyed' = DestroyLabel
    /\ current_label' = 0
    /\ label_image' = NoImage
    /\ UNCHANGED <<label_count, timers, label_result, gif_exists, animate_status>>
    /\ UNCHANGED algVars

\* run to its end (lines 194-244): result shown, graph.gif written, a new
\* label created, animate() called once and its next call scheduled
Run ==
    /\ label_count < MaxLabels
    /\ Len(timers) < MaxTimers
    /\ \E n \in 0..MaxGuiN, gt \in GraphTypes, m \in Modes, a \in Algos :
         \E Gr \in generate_graph(gt, n) :
           \E st \in RunTraces(Gr, m, a) :
             /\ st # <<>>
             /\ label_result' = [kind |-> "colors", text |-> "couleurs",
                                 n |-> CountColors(st)]
             /\ last_run' = [status |-> "ok", empty |-> EmptyInput(Gr, m),
                             nb_colors |-> CountColors(st)]
             /\ label_image' = [frames |-> Len(st), i |-> 0]
             /\ timers' = Append(timers, [frames |-> Len(st),
                                          i |-> 1 % Len(st)])
    /\ destroyed' = DestroyLabel
    /\ label_count' = label_count + 1
    /\ current_label' = label_count + 1
    /\ gif_exists' = TRUE
    /\ animate_status' = "ok"
    /\ UNCHANGED algVars

\* delete_graph (lines 186-192)
DeleteGraph ==
    /\ destroyed' = DestroyLabel
    /\ current_label' = 0
    /\ label_image' = NoImage
    /\ gif_exists' = FALSE
    /\ label_result' = [kind |-> "text", text |-> "Graph supprime", n |-> 0]
    /\ UNCHANGED <<label_count, timers, last_run, animate_status>>
    /\ UNCHANGED algVars

\* a scheduled animate(i) fires (lines 241-243): self.current_label is read
\* when it fires; on None the call raises and nothing is rescheduled
AnimateFire ==
    /\ timers # <<>>
    /\ LET t == Head(timers)
       IN IF current_label = 0
          THEN /\ animate_status' = "AttributeError"
               /\ timers' = Tail(timers)
               /\ UNCHANGED label_image
          ELSE IF current_label \in destroyed
          THEN /\ animate_status' = "TclError"
               /\ timers' = Tail(timers)
               /\ UNCHANGED label_image
          ELSE /\ animate_status' = "ok"
               /\ label_image' = [frames |-> t.frames, i |-> t.i]
               /\ timers' = Append(Tail(timers),
                                   [frames |-> t.frames,
                                    i |-> (t.i + 1) % t.frames])
    /\ UNCHANGED <<current_label, destroyed, label_count, label_result,
                   gif_exists, last_run>>
    /\ UNCHANGED algVars

NextGui ==
    \/ RunValueError
    \/ RunIndexError
    \/ Run
    \/ DeleteGraph
    \/ AnimateFire

SpecGui == InitGui /\ [][NextGui]_vars

\* C3: a run on an empty input (0 vertices in vertex mode, 0 edges in edge
\* mode) is not an error: it ends with the result 0 colours.
C3_EmptyInputNotError ==
    (last_run.status \in {"ok", "IndexError"} /\ last_run.empty) =>
        (last_run.status = "ok" /\ last_run.nb_colors = 0)

\* C10: an animate callback that fires always finds self.current_label a
\* live label, and at most one animate timer chain is pending.
C10_AnimateSafe ==
    /\ animate_status \in {"none", "ok"}
    /\ Len(timers) <= 1

====
